---- MODULE Spec2Model ----
(***************************************************************************)
(* The NATS-streaming message-queue trigger of fission                     *)
(* (mqtrigger/messageQueue/nats.go): activation of a trigger               *)
(* (Nats.subscribe), teardown (Nats.unsubscribe) and the per-message       *)
(* handler returned by msgHandler, together with the part of the broker    *)
(* the handler talks to (durable subscriptions, manual acknowledgement,    *)
(* redelivery of unacknowledged messages).                                 *)
(***************************************************************************)
EXTENDS Integers, Sequences, FiniteSets, TLC

(* ------------------------------ bounds --------------------------------- *)

\* Messages a producer puts on the trigger's channel.
MaxMsgs == 2
\* Deliveries (first delivery and redeliveries) of one message.
MaxDeliveries == 2
\* Largest MaxRetries of the behaviours in which attempt results are recorded.
MaxRetriesReplay == 2

(* ------------------------- program constants --------------------------- *)

\* "Number of retries is required to be between 1 and 5, inclusive"
MinRetries == 1
MaxRetries == 5
\* resp.StatusCode == 200
StatusOK == 200
\* a status of a response that is not a success
StatusFail == 500
\* the status of the response http.Client.Do returns together with an error
\* when the redirect policy stops the request
StatusRedirect == 302

FunctionReferenceTypeFunctionName == "name"
FunctionReferenceTypes == {FunctionReferenceTypeFunctionName, "other"}

(* ------------------------------ topics --------------------------------- *)

\* Channel names are strings, here sequences of characters.
Topics ==
    { <<"a", ".", "b">>,      \* a.b
      <<>>,                   \* the empty name
      <<"a", ".", "*">>,      \* a.*   (partial wildcard)
      <<">">>,                \* >     (full wildcard)
      <<"a", ".">> }          \* a.    (empty last token)

\* nsUtil.IsChannelNameValid(channel, wildcardsAllowed): a name is not empty,
\* has no empty token and, unless wildcards are allowed, holds no wildcard.
IsChannelNameValid(channel, wildcardsAllowed) ==
    /\ Len(channel) > 0
    /\ channel[1] # "."
    /\ \A i \in 1..Len(channel) :
          /\ (channel[i] = ".") =>
                (i # Len(channel) /\ channel[i + 1] # ".")
          /\ (~wildcardsAllowed) => channel[i] \notin {"*", ">"}

MutIsTopicValidForNats(topic) == IsChannelNameValid(topic, TRUE)

\* nats-streaming does not support wildcard channel.
isTopicValidForNats(topic) == IsChannelNameValid(topic, FALSE)

(* ------------------------------ state ---------------------------------- *)

VARIABLES
    trigger,      \* the crd.MessageQueueTrigger object (read-only)
    proc,         \* the hosting process: "up", "exited", "panicked", "down"
    sub,          \* the live broker subscription: <<>> or <<[durable, manualAck]>>
    subErr,       \* what the last call of Nats.subscribe returned
    subCalled,    \* whether nsConn.Subscribe was ever called
    chan,         \* number of messages published on the trigger's channel
    durables,     \* the broker's durable subscriptions, by durable name
    deliveries,   \* per message, how often the broker handed it to the handler
    run,          \* per message, the locals of its handler invocation
    acked,        \* the messages for which msg.Ack() returned nil
    rec,          \* the message whose runs are recorded (0: none)
    hist,         \* the first run of message rec: result and effects of each step
    replay        \* a redelivered run of message rec compared with the first

vars == <<trigger, proc, sub, subErr, subCalled, chan, durables,
          deliveries, run, acked, rec, hist, replay>>

Msgs == 1..MaxMsgs

\* msg.Data: the messages of the channel carry a payload of two bytes and an
\* empty payload in turn.
Data(m) == IF m % 2 = 1 THEN <<"x", "y">> ELSE <<>>

Triggers ==
    [ uid : {"uid-1"},
      name : {"trigger-1"},
      topic : Topics,
      responseTopic : {"", "resp"},
      errorTopic : {"", "err"},
      maxRetries : (MinRetries - 2)..(MaxRetries + 1),
      frType : FunctionReferenceTypes ]

\* The durable names the broker may be given.
DurableNames == {t.uid : t \in Triggers} \cup {"another"}

\* var resp *http.Response: nil is <<>>, a response is <<[status, body, closed]>>.
NilResp == <<>>

\* The locals of one invocation of the handler before its first statement,
\* with what it has done so far: built (the request exists), inv (calls of
\* Do), okAt (the attempt that succeeded, 0 if none), seen (the last attempt
\* that returned a response, 0 if none), acks and ackOK (calls of msg.Ack and
\* whether the last returned nil), pubs (the calls of Publish), lastErr
\* (whether the last call of Do returned an error). rd is the offset of the
\* bytes.Reader that is the body of req; short tells that the transport, reading
\* that reader for an attempt, got fewer bytes than the payload.
NewRun ==
    [ pc |-> "check", attempt |-> 0, resp |-> NilResp, err |-> FALSE,
      body |-> 0, bodyErr |-> FALSE, rd |-> 0,
      built |-> FALSE, inv |-> 0, okAt |-> 0, seen |-> 0,
      acks |-> 0, ackOK |-> FALSE, pubs |-> <<>>, lastErr |-> FALSE,
      short |-> FALSE ]

NoRun == [NewRun EXCEPT !.pc = "idle"]

InFlight(m) == run[m].pc \notin {"idle", "done", "panic", "fatal"}
Ended(m) == run[m].pc \in {"done", "panic", "fatal"}

NoReplay == [pos |-> 0, same |-> TRUE]

InitWith(T, recording) ==
    /\ trigger \in T
    /\ proc = "up"
    /\ sub = <<>>
    /\ subErr = "none"
    /\ subCalled = FALSE
    /\ chan = 0
    /\ durables = [d \in DurableNames |->
                      [open |-> FALSE, lastSent |-> 0, pending |-> {}, acked |-> {}]]
    /\ deliveries = [m \in Msgs |-> 0]
    /\ run = [m \in Msgs |-> NoRun]
    /\ acked = {}
    /\ rec = recording
    /\ hist = <<>>
    /\ replay = NoReplay

Init == InitWith(Triggers, 0)

\* A redelivered run is compared with the first one for the triggers with
\* few retries.
InitReplay ==
    InitWith({t \in Triggers : t.maxRetries <= MaxRetriesReplay}, 1)

(* --------------------------- Nats.subscribe ---------------------------- *)

MutDurableName(t) == IF subCalled THEN "another" ELSE t.uid

\* ns.DurableName(string(trigger.Metadata.UID))
DurableName(t) == t.uid

\* opts: ns.DurableName(...), ns.SetManualAckMode()
SubscriptionOptions(t) == [durable |-> DurableName(t), manualAck |-> TRUE]

\* The broker's side of nsConn.Subscribe: a durable that exists resumes (its
\* unacknowledged messages stay pending), a new one starts with new messages only.
BrokerSubscribe(opts) ==
    LET d == opts.durable IN
    durables' = [durables EXCEPT ![d] =
                    IF @.open THEN @
                    ELSE [open |-> TRUE, lastSent |-> chan,
                          pending |-> {}, acked |-> {}]]

\* func (nats Nats) subscribe(trigger)
Subscribe ==
    /\ proc = "up"
    /\ sub = <<>>
    /\ IF ~isTopicValidForNats(trigger.topic)
       THEN /\ subErr' = "invalid-topic"
            /\ UNCHANGED <<sub, subCalled, durables>>
       ELSE /\ subCalled' = TRUE
            /\ \E ok \in BOOLEAN :
                  IF ok
                  THEN /\ BrokerSubscribe(SubscriptionOptions(trigger))
                       /\ sub' = <<SubscriptionOptions(trigger)>>
                       /\ subErr' = "nil"
                  ELSE /\ subErr' = "subscribe-error"
                       /\ UNCHANGED <<sub, durables>>
    /\ UNCHANGED <<trigger, proc, chan, deliveries, run, acked, rec, hist, replay>>

\* func (nats Nats) unsubscribe(subscription): subscription.Close()
Unsubscribe ==
    /\ proc = "up"
    /\ sub # <<>>
    /\ sub' = <<>>
    /\ UNCHANGED <<trigger, proc, subErr, subCalled, chan, durables,
                   deliveries, run, acked, rec, hist, replay>>

(* ------------------------------ broker --------------------------------- *)

\* A producer publishes a message on the trigger's channel.
Produce ==
    /\ chan < MaxMsgs
    /\ chan' = chan + 1
    /\ UNCHANGED <<trigger, proc, sub, subErr, subCalled, durables,
                   deliveries, run, acked, rec, hist, replay>>

MutFreshRun(m) ==
    [NewRun EXCEPT !.attempt = run[m].attempt, !.resp = run[m].resp,
                   !.err = run[m].err]

\* func(msg *ns.Msg): every invocation of the closure has its own locals.
FreshRun(m) == NewRun

\* The broker hands message m to the subscription's handler: the next new
\* message of the channel, or a message delivered before and not acknowledged.
\* In automatic ack mode the client library acknowledges on delivery.
Deliver(m) ==
    /\ proc = "up"
    /\ sub # <<>>
    /\ \A k \in Msgs : ~InFlight(k)
    /\ deliveries[m] < MaxDeliveries
    /\ LET d == sub[1].durable IN
          /\ \/ m = durables[d].lastSent + 1 /\ m <= chan
             \/ m \in durables[d].pending
          /\ durables' = [durables EXCEPT ![d] =
                [@ EXCEPT !.lastSent = IF m > @ THEN m ELSE @,
                          !.pending = IF sub[1].manualAck THEN @ \cup {m} ELSE @,
                          !.acked = IF sub[1].manualAck THEN @ ELSE @ \cup {m}]]
    /\ deliveries' = [deliveries EXCEPT ![m] = @ + 1]
    /\ run' = [k \in Msgs |-> IF k = m THEN FreshRun(m) ELSE NoRun]
    /\ replay' = IF m = rec THEN NoReplay ELSE replay
    /\ UNCHANGED <<trigger, proc, sub, subErr, subCalled, chan,
                   acked, rec, hist>>

\* The hosting process is killed from outside: no handler invocation survives,
\* and the broker closes its subscription.
Crash ==
    /\ proc = "up"
    /\ proc' = "down"
    /\ sub' = <<>>
    /\ run' = [m \in Msgs |-> NoRun]
    /\ replay' = NoReplay
    /\ UNCHANGED <<trigger, subErr, subCalled, chan, durables,
                   deliveries, acked, rec, hist>>

\* The process is started again.
Restart ==
    /\ proc # "up"
    /\ proc' = "up"
    /\ run' = [m \in Msgs |-> NoRun]
    /\ replay' = NoReplay
    /\ UNCHANGED <<trigger, sub, subErr, subCalled, chan, durables,
                   deliveries, acked, rec, hist>>

(* ----------------------------- msgHandler ------------------------------ *)

\* What the calls of a run have done so far, as seen from outside the handler.
Summary(r) == [pc |-> r.pc, inv |-> r.inv, acks |-> r.acks, pubs |-> r.pubs]

\* One step of the run of message m: its locals become r; res is what the
\* step's call returned. When results are recorded, the first run of a message
\* is written down and a later run is compared with it, result by result.
Step(m, r, res) ==
    /\ run' = [run EXCEPT ![m] = r]
    /\ IF m # rec
       THEN UNCHANGED <<hist, replay>>
       ELSE IF deliveries[m] = 1
            THEN /\ hist' = Append(hist, [res |-> res, sum |-> Summary(r)])
                 /\ UNCHANGED replay
            ELSE /\ replay' = [pos |-> replay.pos + 1,
                               same |-> /\ replay.same
                                        /\ replay.pos + 1 <= Len(hist)
                                        /\ hist[replay.pos + 1].res = res]
                 /\ UNCHANGED hist

\* The process ends inside a handler: the broker closes its subscription.
ProcessDies(how) ==
    /\ proc' = how
    /\ sub' = <<>>

MutLoopPc(attempt) == IF attempt <= trigger.maxRetries THEN "loop" ELSE "defer"

\* for attempt := 0; attempt < trigger.Spec.MaxRetries; attempt++
LoopPc(attempt) == IF attempt < trigger.maxRetries THEN "loop" ELSE "defer"

MutBegin(m) ==
    /\ proc = "up"
    /\ run[m].pc = "check"
    /\ IF trigger.frType # FunctionReferenceTypeFunctionName
       THEN /\ Step(m, [run[m] EXCEPT !.pc = "fatal"], "fatal")
            /\ ProcessDies("exited")
       ELSE /\ \E ok \in BOOLEAN :
                  Step(m, [run[m] EXCEPT !.pc = LoopPc(run[m].attempt),
                                         !.built = ok, !.err = ~ok],
                       IF ok THEN "req" ELSE "reqerr")
            /\ UNCHANGED <<proc, sub>>
    /\ UNCHANGED <<trigger, subErr, subCalled, chan, durables,
                   deliveries, acked, rec>>

\* Lines 98-126: the check of the function reference type (log.Fatalf ends the
\* process) and http.NewRequest, which may return an error.
Begin(m) ==
    /\ proc = "up"
    /\ run[m].pc = "check"
    /\ IF trigger.frType # FunctionReferenceTypeFunctionName
       THEN /\ Step(m, [run[m] EXCEPT !.pc = "fatal"], "fatal")
            /\ ProcessDies("exited")
       ELSE /\ \E ok \in BOOLEAN :
                  IF ok
                  THEN Step(m, [run[m] EXCEPT !.pc = LoopPc(run[m].attempt),
                                              !.built = TRUE], "req")
                  ELSE Step(m, [run[m] EXCEPT !.pc = "done", !.err = TRUE], "reqerr")
            /\ UNCHANGED <<proc, sub>>
    /\ UNCHANGED <<trigger, subErr, subCalled, chan, durables,
                   deliveries, acked, rec>>

\* What http.DefaultClient.Do returns: no response and an error; a response
\* with status 200; a response with another status; or, when the redirect
\* policy stops the request, a response whose body is closed and an error.
DoResults == {"neterr", "ok200", "non200", "redirerr"}

\* The response of attempt k (1, 2, ...): its body is named after the attempt.
RespOf(o, k) ==
    CASE o = "neterr"   -> NilResp
      [] o = "ok200"    -> <<[status |-> StatusOK, body |-> k, closed |-> FALSE]>>
      [] o = "non200"   -> <<[status |-> StatusFail, body |-> k, closed |-> FALSE]>>
      [] o = "redirerr" -> <<[status |-> StatusRedirect, body |-> k, closed |-> TRUE]>>

ErrOf(o) == o \in {"neterr", "redirerr"}

MutAfterDo(r, resp, err) ==
    [r EXCEPT !.resp = resp, !.err = err, !.inv = @ + 1, !.lastErr = err,
              !.seen = IF resp = NilResp THEN @ ELSE r.inv + 1,
              !.okAt = IF resp # NilResp /\ ~err /\ resp[1].status = StatusOK /\ @ = 0
                       THEN r.inv + 1 ELSE @,
              !.attempt = @ + 1, !.pc = LoopPc(r.attempt + 1)]

MutAfterDoKeepFirst(r, resp, err) ==
    LET keep == r.resp # NilResp
        r1 == [r EXCEPT !.resp = IF keep THEN r.resp ELSE resp,
                        !.err = IF keep THEN r.err ELSE err,
                        !.inv = @ + 1, !.lastErr = err,
                        !.seen = IF resp = NilResp THEN @ ELSE r.inv + 1] IN
    IF resp # NilResp /\ ~err /\ resp[1].status = StatusOK
    THEN [r1 EXCEPT !.resp = resp, !.err = err, !.pc = "defer",
                    !.okAt = IF r.okAt = 0 THEN r.inv + 1 ELSE r.okAt]
    ELSE [r1 EXCEPT !.attempt = @ + 1, !.pc = LoopPc(r.attempt + 1)]

\* Lines 142-149: what one iteration does after Do has returned.
AfterDo(r, resp, err) ==
    LET r1 == [r EXCEPT !.resp = resp, !.err = err, !.inv = @ + 1,
                        !.lastErr = err,
                        !.seen = IF resp = NilResp THEN @ ELSE r.inv + 1] IN
    IF resp = NilResp
    THEN [r1 EXCEPT !.attempt = @ + 1, !.pc = LoopPc(r.attempt + 1)]
    ELSE IF ~err /\ resp[1].status = StatusOK
         THEN [r1 EXCEPT !.pc = "defer",
                         !.okAt = IF r.okAt = 0 THEN r.inv + 1 ELSE r.okAt]
         ELSE [r1 EXCEPT !.attempt = @ + 1, !.pc = LoopPc(r.attempt + 1)]

\* What the body reader of req has left to yield: bytes.NewReader(msg.Data)
\* read up to offset rd.
Remaining(m, rd) == SubSeq(Data(m), rd + 1, Len(Data(m)))

\* The offset of the reader once the transport has read the body for an
\* attempt: the reader is at its end, and nothing rewinds it.
ReadBody(m, rd) == Len(Data(m))

\* How http.DefaultClient.Do treats the body of req in one call:
\* "unsent"   the connection fails before the body is read (no response);
\* "sent"     the transport reads req.Body to its end; when that yields fewer
\*            bytes than the ContentLength set by http.NewRequest the call
\*            fails with no response;
\* "rewound"  the reader is at its end and the transport, retrying on its own
\*            after a failed write on a reused connection, sends a new copy of
\*            the body taken from req.GetBody; req.Body is left as it is.
DoBody(m, r, o, how) ==
    CASE how = "unsent"  -> /\ o = "neterr"
      [] how = "sent"    -> (Remaining(m, r.rd) # Data(m)) => o = "neterr"
      [] how = "rewound" -> Remaining(m, r.rd) # Data(m)

AfterBody(m, r, how) ==
    IF how = "sent"
    THEN [r EXCEPT !.rd = ReadBody(m, r.rd),
                   !.short = @ \/ Remaining(m, r.rd) # Data(m)]
    ELSE r

\* One iteration of the retry loop (lines 138-150).
Attempt(m) ==
    /\ proc = "up"
    /\ run[m].pc = "loop"
    /\ \E o \in DoResults, how \in {"unsent", "sent", "rewound"} :
          /\ DoBody(m, run[m], o, how)
          /\ Step(m, AfterDo(AfterBody(m, run[m], how),
                             RespOf(o, run[m].inv + 1), ErrOf(o)), o)
    /\ UNCHANGED <<trigger, proc, sub, subErr, subCalled, chan,
                   durables, deliveries, acked, rec>>

\* Line 153: defer resp.Body.Close() evaluates resp.Body, which panics when
\* resp is nil; the check of line 155 comes after it.
DeferClose(m) ==
    /\ proc = "up"
    /\ run[m].pc = "defer"
    /\ IF run[m].resp = NilResp
       THEN /\ Step(m, [run[m] EXCEPT !.pc = "panic"], "panic")
            /\ ProcessDies("panicked")
       ELSE /\ Step(m, [run[m] EXCEPT !.pc = "read"], "defer")
            /\ UNCHANGED <<proc, sub>>
    /\ UNCHANGED <<trigger, subErr, subCalled, chan, durables,
                   deliveries, acked, rec>>

MutAfterRead(r) == "ack"

MutAfterReadPublishFirst(r) ==
    IF r.err \/ r.resp[1].status # StatusOK
    THEN (IF Len(trigger.errorTopic) > 0 THEN "puberr" ELSE "done")
    ELSE (IF Len(trigger.responseTopic) > 0 THEN "pubresp" ELSE "ack")

\* Line 167 and line 172: where the run goes once the body is read.
AfterRead(r) ==
    IF r.err \/ r.resp[1].status # StatusOK
    THEN (IF Len(trigger.errorTopic) > 0 THEN "puberr" ELSE "done")
    ELSE "ack"

MutReadAll(m) ==
    /\ proc = "up"
    /\ run[m].pc = "read"
    /\ \E ok \in BOOLEAN :
          /\ ok => ~run[m].resp[1].closed
          /\ LET r == [run[m] EXCEPT !.body = IF ok THEN run[m].resp[1].body ELSE @,
                                     !.bodyErr = ~ok] IN
             Step(m, [r EXCEPT !.pc = AfterRead(r)], IF ok THEN "read" ELSE "readerr")
    /\ UNCHANGED <<trigger, proc, sub, subErr, subCalled, chan,
                   durables, deliveries, acked, rec>>

\* Lines 160-179: ioutil.ReadAll(resp.Body), which fails on a closed body and
\* may fail on any other, and the choice between the two outcomes.
ReadAll(m) ==
    /\ proc = "up"
    /\ run[m].pc = "read"
    /\ \E ok \in BOOLEAN :
          /\ ok => ~run[m].resp[1].closed
          /\ IF ok
             THEN LET r == [run[m] EXCEPT !.body = run[m].resp[1].body] IN
                  Step(m, [r EXCEPT !.pc = AfterRead(r)], "read")
             ELSE Step(m, [run[m] EXCEPT !.bodyErr = TRUE, !.pc = "done"], "readerr")
    /\ UNCHANGED <<trigger, proc, sub, subErr, subCalled, chan,
                   durables, deliveries, acked, rec>>

MutPublished(r, site, topic, ok) ==
    [r EXCEPT !.pubs = Append(@, [site |-> site, topic |-> topic,
                                  body |-> r.body, ok |-> ok]),
              !.pc = IF ok THEN "done" ELSE @]

\* nats.nsConn.Publish(topic, body) called at `site` of the handler.
Published(r, site, topic, ok) ==
    [r EXCEPT !.pubs = Append(@, [site |-> site, topic |-> topic,
                                  body |-> r.body, ok |-> ok]),
              !.pc = "done"]

\* Lines 172-178: the publish to the error topic.
PublishError(m) ==
    /\ proc = "up"
    /\ run[m].pc = "puberr"
    /\ \E ok \in BOOLEAN :
          Step(m, Published(run[m], "error", trigger.errorTopic, ok),
               IF ok THEN "pub" ELSE "puberr")
    /\ UNCHANGED <<trigger, proc, sub, subErr, subCalled, chan,
                   durables, deliveries, acked, rec>>

\* Line 187: where the run goes after the ack.
AfterAck == IF Len(trigger.responseTopic) > 0 THEN "pubresp" ELSE "done"

\* Lines 181-185: msg.Ack(); its error is logged. The broker takes the ack
\* only of a live subscription in manual ack mode.
Ack(m) ==
    /\ proc = "up"
    /\ run[m].pc = "ack"
    /\ \E ok \in BOOLEAN :
          /\ ok => (sub # <<>> /\ sub[1].manualAck)
          /\ Step(m, [run[m] EXCEPT !.acks = @ + 1, !.ackOK = ok, !.err = ~ok,
                                    !.pc = AfterAck],
                  IF ok THEN "ack" ELSE "ackerr")
          /\ IF ok
             THEN /\ durables' = [durables EXCEPT ![sub[1].durable] =
                                    [@ EXCEPT !.pending = @ \ {m},
                                              !.acked = @ \cup {m}]]
                  /\ acked' = acked \cup {m}
             ELSE UNCHANGED <<durables, acked>>
    /\ UNCHANGED <<trigger, proc, sub, subErr, subCalled, chan,
                   deliveries, rec>>

\* Lines 187-192: the publish to the response topic.
PublishResponse(m) ==
    /\ proc = "up"
    /\ run[m].pc = "pubresp"
    /\ \E ok \in BOOLEAN :
          Step(m, Published(run[m], "response", trigger.responseTopic, ok),
               IF ok THEN "pub" ELSE "puberr")
    /\ UNCHANGED <<trigger, proc, sub, subErr, subCalled, chan,
                   durables, deliveries, acked, rec>>

(* --------------------------- specifications ---------------------------- *)

Next ==
    \/ Subscribe
    \/ Unsubscribe
    \/ Produce
    \/ Crash
    \/ Restart
    \/ \E m \in Msgs : Deliver(m)
    \/ \E m \in Msgs : Begin(m)
    \/ \E m \in Msgs : Attempt(m)
    \/ \E m \in Msgs : DeferClose(m)
    \/ \E m \in Msgs : ReadAll(m)
    \/ \E m \in Msgs : PublishError(m)
    \/ \E m \in Msgs : Ack(m)
    \/ \E m \in Msgs : PublishResponse(m)

Spec == Init /\ [][Next]_vars

\* The same program following the deliveries of one message, with the results
\* of the calls of its runs recorded.
NextReplay ==
    \/ Subscribe
    \/ Unsubscribe
    \/ Produce
    \/ Crash
    \/ Restart
    \/ Deliver(rec)
    \/ Begin(rec)
    \/ Attempt(rec)
    \/ DeferClose(rec)
    \/ ReadAll(rec)
    \/ PublishError(rec)
    \/ Ack(rec)
    \/ PublishResponse(rec)

SpecReplay == InitReplay /\ [][NextReplay]_vars

\* The steps of the run of message m.
RunStep(m) ==
    \/ Begin(m)
    \/ Attempt(m)
    \/ DeferClose(m)
    \/ ReadAll(m)
    \/ PublishError(m)
    \/ Ack(m)
    \/ PublishResponse(m)

\* The program while nothing kills the process from outside, every call a
\* run makes (Do, ReadAll, Ack, Publish) returning in the end.
NextLive ==
    \/ Subscribe
    \/ Unsubscribe
    \/ Produce
    \/ Restart
    \/ \E m \in Msgs : Deliver(m)
    \/ \E m \in Msgs : RunStep(m)

SpecLive ==
    Init /\ [][NextLive]_vars /\ \A m \in Msgs : WF_vars(RunStep(m))

(* ------------------------------ claims --------------------------------- *)

\* The broker holds message m as acknowledged.
Acknowledged(m) == \E d \in DurableNames : m \in durables[d].acked

\* Some attempt of the run completed with no transport error and status 200.
Succeeded(r) == r.okAt # 0

\* The run has left the retry loop.
PastLoop(r) == r.built /\ r.pc \notin {"idle", "check", "loop"}

InRange(n) == n \in MinRetries..MaxRetries

\* The one call of Publish a run made went to `topic` from `site` with `body`.
OnePublish(r, site, topic, body) ==
    /\ Len(r.pubs) = 1
    /\ r.pubs[1].site = site
    /\ r.pubs[1].topic = topic
    /\ r.pubs[1].body = body

\* C1 as stated: at the end of a run the message is acknowledged if and only
\* if some attempt completed with no transport error and status 200.
C1_AckIffSucceeded ==
    \A m \in Msgs : Ended(m) => (Acknowledged(m) <=> Succeeded(run[m]))

\* C1 as amended: at the end of a run, msg.Ack was called if and only if some
\* attempt succeeded and the response body was then read without error, and
\* the message is acknowledged if and only if, in addition, that call
\* returned no error; in every other run the message is left unacknowledged.
C1_AckIffSucceededAndRead ==
    \A m \in Msgs :
        Ended(m) =>
            /\ (run[m].acks = 1) <=> (Succeeded(run[m]) /\ ~run[m].bodyErr)
            /\ (run[m].acks = 0) <=> ~(Succeeded(run[m]) /\ ~run[m].bodyErr)
            /\ Acknowledged(m) <=>
                   (Succeeded(run[m]) /\ ~run[m].bodyErr /\ run[m].ackOK)

\* A run that succeeded on a retry has ended with the message acknowledged.
C1_Witness ==
    \E m \in Msgs :
        /\ run[m].pc = "done"
        /\ run[m].okAt = 2
        /\ Acknowledged(m)

\* C2: with maxRetries = N in 1..5 and no attempt succeeding, the endpoint is
\* invoked exactly N times: never more than N, and N times once the loop is left.
C2_ExactlyNInvocations ==
    \A m \in Msgs :
        InRange(trigger.maxRetries) =>
            /\ run[m].inv <= trigger.maxRetries
            /\ (PastLoop(run[m]) /\ ~Succeeded(run[m])) =>
                   run[m].inv = trigger.maxRetries

\* Five failed attempts, the last one with a response, and the loop is left.
C2_Witness ==
    \E m \in Msgs :
        /\ trigger.maxRetries = MaxRetries
        /\ PastLoop(run[m])
        /\ ~Succeeded(run[m])
        /\ run[m].inv = MaxRetries
        /\ run[m].seen = MaxRetries

\* C3 as stated: if attempt k is the first to succeed, the run ends after
\* exactly k invocations with the message acknowledged and, when responseTopic
\* is set, exactly one publish to it with the body of attempt k, else none.
C3_SuccessAtK ==
    \A m \in Msgs :
        (Ended(m) /\ InRange(trigger.maxRetries) /\ Succeeded(run[m])) =>
            /\ run[m].inv = run[m].okAt
            /\ Acknowledged(m)
            /\ IF Len(trigger.responseTopic) > 0
               THEN OnePublish(run[m], "response", trigger.responseTopic,
                               run[m].okAt)
               ELSE run[m].pubs = <<>>

\* C3 as amended: if attempt k is the first to succeed, the run ends after
\* exactly k invocations; when the body of attempt k is read without error,
\* msg.Ack is called exactly once (the message is acknowledged if that call
\* returns no error) and exactly one publish to responseTopic with that body
\* is made when responseTopic is set, none when it is empty; when the body
\* cannot be read there is no ack and no publish.
C3_SuccessAtKRead ==
    \A m \in Msgs :
        (Ended(m) /\ InRange(trigger.maxRetries) /\ Succeeded(run[m])) =>
            /\ run[m].inv = run[m].okAt
            /\ run[m].okAt \in 1..trigger.maxRetries
            /\ IF run[m].bodyErr
               THEN /\ run[m].acks = 0
                    /\ ~Acknowledged(m)
                    /\ run[m].pubs = <<>>
               ELSE /\ run[m].acks = 1
                    /\ Acknowledged(m) <=> run[m].ackOK
                    /\ IF Len(trigger.responseTopic) > 0
                       THEN OnePublish(run[m], "response",
                                       trigger.responseTopic, run[m].okAt)
                       ELSE run[m].pubs = <<>>

\* maxRetries = 3, two failures, success on attempt 3, acknowledged, published.
C3_Witness ==
    \E m \in Msgs :
        /\ trigger.maxRetries = 3
        /\ run[m].pc = "done"
        /\ run[m].okAt = 3
        /\ run[m].inv = 3
        /\ Acknowledged(m)
        /\ OnePublish(run[m], "response", trigger.responseTopic, 3)

\* C4 as stated: a run that exhausts its retries never acknowledges and, when
\* errorTopic is set, makes exactly one publish to it, with the last body a
\* response brought or an empty payload if there was none; with no errorTopic
\* it publishes nothing.
C4_ExhaustedPublishesError ==
    \A m \in Msgs :
        (Ended(m) /\ InRange(trigger.maxRetries) /\ run[m].built
                  /\ ~Succeeded(run[m])) =>
            /\ run[m].acks = 0
            /\ ~Acknowledged(m)
            /\ IF Len(trigger.errorTopic) > 0
               THEN OnePublish(run[m], "error", trigger.errorTopic, run[m].seen)
               ELSE run[m].pubs = <<>>

\* C5: in every run msg.Ack is called at most once and Publish at most once,
\* an ack and a publish to errorTopic never both occur, and a publish to
\* responseTopic occurs only after msg.Ack was called.
C5_AtMostOneAckOnePublish ==
    \A m \in Msgs :
        /\ run[m].acks <= 1
        /\ Len(run[m].pubs) <= 1
        /\ \A i \in 1..Len(run[m].pubs) :
              /\ run[m].pubs[i].site = "error" =>
                    (run[m].acks = 0 /\ run[m].pubs[i].topic = trigger.errorTopic)
              /\ run[m].pubs[i].site = "response" =>
                    (run[m].acks = 1 /\ run[m].pubs[i].topic = trigger.responseTopic)

\* A run whose ack failed and whose publish failed has ended with one of each.
C5_Witness ==
    \E m \in Msgs :
        /\ run[m].pc = "done"
        /\ run[m].acks = 1
        /\ ~run[m].ackOK
        /\ Len(run[m].pubs) = 1
        /\ ~run[m].pubs[1].ok

\* C6 as stated: a message for a trigger with an unsupported function
\* reference type fails only its own dispatch; the process keeps running.
C6_ProcessSurvivesBadRefType ==
    \A m \in Msgs : run[m].pc = "fatal" => proc = "up"

\* C7: a trigger whose topic the validator rejects never reaches the broker's
\* subscribe: Nats.subscribe returns the error, no subscription exists and no
\* run ever starts.
C7_InvalidTopicNeverSubscribes ==
    ~IsChannelNameValid(trigger.topic, FALSE) =>
        /\ ~subCalled
        /\ sub = <<>>
        /\ subErr \in {"none", "invalid-topic"}
        /\ \A m \in Msgs : deliveries[m] = 0 /\ run[m].pc = "idle"

\* Activation of a wildcard topic has failed while a message waits on the channel.
C7_Witness ==
    /\ trigger.topic = <<"a", ".", "*">>
    /\ subErr = "invalid-topic"
    /\ chan > 0

\* C8 as stated: a trigger whose maxRetries is outside 1..5 never subscribes,
\* and no run executes the retry loop with such a bound.
C8_OutOfRangeNeverSubscribes ==
    ~InRange(trigger.maxRetries) =>
        /\ sub = <<>>
        /\ \A m \in Msgs : run[m].pc = "idle"

\* C9: every subscription is opened in manual ack mode under the durable name
\* given by the trigger's UID, so that on the live subscription a message
\* delivered before and not acknowledged by the handler is pending redelivery
\* and a message the handler acknowledged is not.
C9_DurableResume ==
    sub # <<>> =>
        /\ sub[1].manualAck
        /\ sub[1].durable = trigger.uid
        /\ \A m \in Msgs :
              deliveries[m] > 0 =>
                  (m \in durables[sub[1].durable].pending <=> m \notin acked)

\* After a crash and a new activation, message 1 (acknowledged) is not pending
\* and message 2 (its run was cut by the crash) is.
C9_Witness ==
    /\ proc = "up"
    /\ sub # <<>>
    /\ deliveries[1] = 1
    /\ deliveries[2] = 1
    /\ run[2].pc = "idle"
    /\ 1 \in acked
    /\ 2 \notin acked
    /\ 2 \in durables[sub[1].durable].pending
    /\ 1 \notin durables[sub[1].durable].pending

\* C10: a redelivered run starts from the locals of a first run, and as long
\* as its calls return what the calls of the first run returned, it has made
\* the same invocations, acks and publishes as the first run had at that step.
C10_RedeliveryIsFresh ==
    \A m \in Msgs :
        (m = rec /\ deliveries[m] >= 2 /\ run[m].pc # "idle") =>
            /\ replay.pos = 0 => run[m] = NewRun
            /\ (replay.same /\ replay.pos >= 1) =>
                   Summary(run[m]) = hist[replay.pos].sum

\* A redelivered run got the results of the first run to the end: two
\* invocations, no ack, one publish to the error topic.
C10_Witness ==
    \E m \in Msgs :
        /\ m = rec
        /\ deliveries[m] = 2
        /\ run[m].pc = "done"
        /\ replay.same
        /\ replay.pos = Len(hist)
        /\ run[m].inv = 2
        /\ Len(run[m].pubs) = 1

\* C11 as stated: a run whose last attempt brought no response ends by
\* returning normally: no crash, no ack, and all maxRetries attempts used.
C11_NoResponseReturnsNormally ==
    \A m \in Msgs :
        (InRange(trigger.maxRetries) /\ PastLoop(run[m])
                                     /\ run[m].resp = NilResp) =>
            /\ run[m].pc \in {"defer", "done"}
            /\ proc = "up"
            /\ run[m].acks = 0
            /\ run[m].inv = trigger.maxRetries

\* C12: in a run that succeeded and read its body, with responseTopic set,
\* msg.Ack has been called and has returned before Publish is called; the
\* publish is made whether or not the ack failed, and after the publish,
\* failed or not, the run has ended with that one ack and that one publish.
C12_AckBeforePublish ==
    \A m \in Msgs :
        LET r == run[m] IN
        /\ r.pc = "ack" => (r.acks = 0 /\ r.pubs = <<>>)
        /\ r.pc = "pubresp" => (r.acks = 1 /\ r.pubs = <<>>)
        /\ (r.pubs # <<>> /\ r.pubs[1].site = "response") =>
              (r.acks = 1 /\ r.pc = "done" /\ Len(r.pubs) = 1)
        /\ (r.pc = "done" /\ Succeeded(r) /\ ~r.bodyErr
                          /\ Len(trigger.responseTopic) > 0) =>
              (r.acks = 1 /\ OnePublish(r, "response", trigger.responseTopic, r.body))

\* The ack failed and the publish to the response topic was still made.
C12_Witness ==
    \E m \in Msgs :
        /\ run[m].pc = "done"
        /\ run[m].acks = 1
        /\ ~run[m].ackOK
        /\ OnePublish(run[m], "response", "resp", run[m].okAt)
        /\ run[m].pubs[1].ok

\* The run has taken the branch of line 167 that reports a failure.
Reporting(r) ==
    \/ r.pc = "puberr"
    \/ r.pubs # <<>> /\ r.pubs[1].site = "error"
    \/ r.pc = "done" /\ r.built /\ r.inv > 0 /\ ~Succeeded(r) /\ ~r.bodyErr

\* C13: when the retry budget is exhausted, what is reported is the outcome
\* of the last attempt: the body read, and published to errorTopic, is the
\* body of the final attempt, and the error logged is the final attempt's.
C13_LastAttemptOnly ==
    \A m \in Msgs :
        LET r == run[m] IN
        Reporting(r) =>
            /\ r.inv = trigger.maxRetries
            /\ r.resp # NilResp
            /\ r.resp[1].body = r.inv
            /\ r.body = r.inv
            /\ r.err = r.lastErr
            /\ \A i \in 1..Len(r.pubs) : r.pubs[i].body = r.inv

\* Three attempts failed and the body of the third went to the error topic.
C13_Witness ==
    \E m \in Msgs :
        /\ trigger.maxRetries = 3
        /\ run[m].pc = "done"
        /\ run[m].inv = 3
        /\ OnePublish(run[m], "error", "err", 3)

\* C14: a run whose response body could not be read has returned with no
\* call of msg.Ack and no publish, whatever the status of the final attempt.
C14_ReadErrorIsTerminal ==
    \A m \in Msgs :
        run[m].bodyErr =>
            /\ run[m].pc = "done"
            /\ run[m].acks = 0
            /\ run[m].pubs = <<>>
            /\ ~Acknowledged(m)
            /\ m \notin acked

\* The body of a 200 response could not be read, with both topics set.
C14_Witness ==
    \E m \in Msgs :
        /\ run[m].bodyErr
        /\ run[m].resp # NilResp
        /\ run[m].resp[1].status = StatusOK
        /\ ~run[m].err
        /\ trigger.responseTopic = "resp"
        /\ trigger.errorTopic = "err"

\* http.NewRequest returned an error in the run.
BuildFailed(r) == ~r.built /\ r.pc \notin {"idle", "check", "fatal"}

\* C15: a run whose request could not be built has returned at once: no call
\* of Do, no ack, no publish.
C15_BuildErrorIsTerminal ==
    \A m \in Msgs :
        BuildFailed(run[m]) =>
            /\ run[m].pc = "done"
            /\ run[m].inv = 0
            /\ run[m].acks = 0
            /\ run[m].pubs = <<>>
            /\ m \notin acked

\* The request of a trigger with three retries and both topics could not be built.
C15_Witness ==
    \E m \in Msgs :
        /\ BuildFailed(run[m])
        /\ run[m].err
        /\ trigger.maxRetries = 3
        /\ trigger.responseTopic = "resp"
        /\ trigger.errorTopic = "err"

\* C16 as stated: at every attempt the body reader of the request, built once
\* before the loop, yields the complete payload, and no attempt has sent less.
C16_EveryAttemptSendsPayload ==
    \A m \in Msgs :
        /\ run[m].pc = "loop" => Remaining(m, run[m].rd) = Data(m)
        /\ ~run[m].short

\* C17 as stated, for a trigger with a supported reference type and
\* maxRetries in 1..5: a run makes at most maxRetries invocations, and a run
\* that has ended has finished by returning, with a success or with its
\* maxRetries invocations used (or before the loop, its request not built).
C17_RunsFinish ==
    \A m \in Msgs :
        (InRange(trigger.maxRetries)
            /\ trigger.frType = FunctionReferenceTypeFunctionName) =>
            /\ run[m].inv <= trigger.maxRetries
            /\ Ended(m) =>
                  /\ run[m].pc = "done"
                  /\ \/ Succeeded(run[m])
                     \/ run[m].inv = trigger.maxRetries
                     \/ BuildFailed(run[m])

\* What holds of C17: while the process is not killed and every call returns,
\* every started run ends, by returning or by ending the process.
C17_StartedRunsEnd ==
    \A m \in Msgs : (run[m].pc = "check") ~> Ended(m)

\* The broker has message m to hand to the subscription: the next new message
\* of the channel, or one delivered before and not acknowledged.
Deliverable(m) ==
    /\ proc = "up"
    /\ sub # <<>>
    /\ deliveries[m] < MaxDeliveries
    /\ \/ m = durables[sub[1].durable].lastSent + 1 /\ m <= chan
       \/ m \in durables[sub[1].durable].pending

\* C18 as stated: while the run of a message n is inside the handler (blocked
\* in its invocation, ack or publish call), the run of another message m the
\* broker has for the subscription can start and progress.
C18_BlockedRunDoesNotBlockOther ==
    \A m, n \in Msgs :
        (m # n /\ InFlight(n) /\ Deliverable(m)) => ENABLED Deliver(m)

====
